---- MODULE Spec2Model ----
\* Room handlers of synapse/api/handlers/room.py (MessageHandler,
\* RoomCreationHandler, RoomMemberHandler) over an abstract event store.
\* Every handler runs to completion as one step; the Store is the only
\* shared state. A handler is an operator from the Store and the event to
\* its outcome (what it raises or returns, the Store calls it makes, the
\* tables it leaves); its action applies the outcome to the Store.
EXTENDS Integers, Sequences, FiniteSets, TLC

\* ---------------------------------------------------------------- bounds
\* At most this many message rows are ever stored (the table is unbounded).
MaxMessages == 1

\* ---------------------------------------------------------------- values
\* Python's None (no row, no requester, no return value).
None == "None"

\* class Membership
INVITE == "invite"
JOIN == "join"
KNOCK == "knock"
LEAVE == "leave"
Membership == {INVITE, JOIN, KNOCK, LEAVE}

\* RoomTopicEvent.TYPE and MessageEvent.TYPE
RoomTopicEventTYPE == "sy.room.topic"
MessageEventTYPE == "sy.room.message"

\* Identifiers the requests are drawn from; Times is what int(time.time())
\* may read in _inject_membership_msg.
RoomIds == {"r1", "r2"}
UserIds == {"A", "B"}
\* event.auth_user_id: a user id, or None when the request has no requester.
AuthIds == UserIds \cup {None}
\* event.membership as it arrives: the enum values and a value outside it.
RequestedStates == Membership \cup {"bogus"}
MsgIds == {"x1"}
Contents == {"c1"}
\* event.content of the path data events.
PathContents == {"c1", "c2"}
Paths == {"p1"}
EventTypes == {RoomTopicEventTYPE, MessageEventTYPE}
Times == {1}
\* The rule lists a caller of get_room_path_data may pass.
RuleLists == {{}, {JOIN}, {INVITE}}
DefaultPublicRules == {}
DefaultPrivateRules == {JOIN}
Visibilities == {"public", "private"}
\* A rule argument the caller leaves out, so that the default object is bound.
Omitted == {"omitted"}
RuleArgs == RuleLists \cup {Omitted}
\* The (public, private) rule arguments of the calls: both left out, or
\* both passed.
RuleArgPairs ==
    ({{}} \X RuleLists) \cup {<<Omitted, Omitted>>, <<{JOIN}, {JOIN}>>}

\* Python truthiness of an id: None and "" are false.
Truthy(x) == x # None /\ x # ""

\* json.dumps(content): the stored text of a content value.
json_dumps(c) == <<"json", c>>

\* ---------------------------------------------------------------- state
VARIABLES
    rooms,      \* Store: set of room rows [room_id, is_public, creator]
    members,    \* Store: latest member row per (room, user): [membership, content]
    messages,   \* Store: set of message rows [room_id, user_id, msg_id, content]
    path_data,  \* Store: latest row per path: [room_id, content] or NoPathRow
    rule_defaults,  \* get_room_path_data's default argument objects
    path_written,   \* history: per path, the event content of the latest
                    \* store_room_path_data that returned without error
    requests,       \* change_membership calls in flight: per request that
                    \* has arrived its event, where it is suspended, its
                    \* local variables and its result
    member_writes   \* history: the store_room_member calls of the requests
                    \* in flight, in the order the Store performed them

vars == <<rooms, members, messages, path_data, rule_defaults, path_written,
          requests, member_writes>>

NoMember == [membership |-> None, content |-> None]
NoPathRow == [room_id |-> None, content |-> None]

\* ---------------------------------------------------------------- Store
\* store.get_room(room_id): the list of matching rows.
store_get_room(room_id) == {r \in rooms : r.room_id = room_id}

\* store.get_room_member(room_id, user_id): the list of matching rows;
\* an id that names no user (None, "") has no row.
store_get_room_member(room_id, user_id) ==
    IF user_id \in UserIds /\ members[room_id][user_id].membership # None
    THEN {members[room_id][user_id]}
    ELSE {}

\* store.store_room_member: the latest write per pair is the current row.
store_store_room_member(room_id, user_id, membership, content) ==
    [members EXCEPT ![room_id][user_id] =
        [membership |-> membership, content |-> content]]

\* store.get_message(room_id, msg_id, user_id): the list of matching rows.
store_get_message(room_id, msg_id, user_id) ==
    {m \in messages :
        m.room_id = room_id /\ m.msg_id = msg_id /\ m.user_id = user_id}

\* store.store_message: a new row.
store_store_message(user_id, room_id, msg_id, content) ==
    messages \cup {[room_id |-> room_id, user_id |-> user_id,
                    msg_id |-> msg_id, content |-> content]}

\* store.store_room(room_id, creator, is_public): the id is taken.
store_room_taken(room_id) == store_get_room(room_id) # {}

\* store.store_room: the row is added unless the id is taken (the store
\* rejects a duplicate atomically and answers None).
store_store_room(room_id, room_creator_user_id, is_public) ==
    IF store_room_taken(room_id)
    THEN rooms
    ELSE rooms \cup {[room_id |-> room_id, is_public |-> is_public,
                      creator |-> room_creator_user_id]}

\* store.get_path_data(path)
store_get_path_data(path) == path_data[path]

\* store.store_path_data(room_id, path, content)
store_store_path_data(room_id, path, content) ==
    [path_data EXCEPT ![path] = [room_id |-> room_id, content |-> content]]

\* ---------------------------------------------------------------- results
Ok == [code |-> 200, msg |-> "ok"]
RoomError(code, msg) == [code |-> code, msg |-> msg]
\* A fault of the Store (StoreException) reaching the caller unmodified.
StoreFault == [code |-> 0, msg |-> "StoreException"]
\* `caller`/`target` read before assignment after a swallowed lookup fault.
UnboundLocalError == [code |-> 0, msg |-> "UnboundLocalError"]

\* Which Store call of a handler faults; NoFault: none does.
NoFault == "none"

\* ---------------------------------------------------------------- helpers
\* _get_joined_or_throw raising only when there is no member row.
get_joined_or_throw_raises_any_row(room_id, user_id) ==
    store_get_room_member(room_id, user_id) = {}

\* _get_joined_or_throw: TRUE iff it raises RoomError(403, "Haven't joined
\* room.'"), i.e. there is no member row or its membership is not "join".
get_joined_or_throw_raises(room_id, user_id) ==
    LET member == store_get_room_member(room_id, user_id)
    IN  member = {} \/ \E m \in member : m.membership # "join"

NotJoined == RoomError(403, "Haven't joined room.'")

\* The `if event.auth_user_id:` gate shared by the handlers: the result it
\* ends the handler with, or Ok when the handler goes on.
joined_gate(room_id, auth_user_id, fault) ==
    IF ~Truthy(auth_user_id) THEN Ok
    ELSE IF fault = "get_room_member" THEN StoreFault
    ELSE IF get_joined_or_throw_raises(room_id, auth_user_id) THEN NotJoined
    ELSE Ok

\* The Store calls the gate makes.
gate_calls(auth_user_id) ==
    IF Truthy(auth_user_id) THEN <<"get_room_member">> ELSE <<>>

\* ---------------------------------------------------------------- MessageHandler
\* MessageHandler.get_message: result, the values it may return ({} is
\* None, {m} the row results[0]) and the Store calls made.
get_message_outcome(room_id, auth_user_id, user_id, msg_id, fault) ==
    LET gate == joined_gate(room_id, auth_user_id, fault)
        results == store_get_message(room_id, msg_id, user_id)
    IN  IF gate # Ok
        THEN [result |-> gate, returns |-> {},
              store_calls |-> gate_calls(auth_user_id)]
        ELSE IF fault = "get_message"
        THEN [result |-> StoreFault, returns |-> {},
              store_calls |-> Append(gate_calls(auth_user_id), "get_message")]
        ELSE [result |-> Ok,
              returns |-> IF results # {} THEN {{m} : m \in results} ELSE {{}},
              store_calls |-> Append(gate_calls(auth_user_id), "get_message")]

\* get_message makes no Store write.
get_message(room_id, auth_user_id, user_id, msg_id, fault) ==
    UNCHANGED <<rooms, members, messages, path_data, rule_defaults, path_written,
                requests, member_writes>>

\* send_message without the "send as yourself" check.
send_message_outcome_any_author(room_id, user_id, auth_user_id, msg_id, content, fault) ==
    LET gate == joined_gate(room_id, auth_user_id, fault)
    IN  IF gate # Ok
        THEN [result |-> gate, store_calls |-> gate_calls(auth_user_id),
              messages |-> messages]
        ELSE IF fault = "store_message"
        THEN [result |-> StoreFault,
              store_calls |-> Append(gate_calls(auth_user_id), "store_message"),
              messages |-> messages]
        ELSE [result |-> Ok,
              store_calls |-> Append(gate_calls(auth_user_id), "store_message"),
              messages |-> store_store_message(
                               user_id, room_id, msg_id, json_dumps(content))]

\* MessageHandler.send_message: result, Store calls and the message table.
send_message_outcome(room_id, user_id, auth_user_id, msg_id, content, fault) ==
    LET gate == joined_gate(room_id, auth_user_id, fault)
    IN  IF Truthy(auth_user_id) /\ user_id # auth_user_id
        THEN [result |-> RoomError(403, "Must send messages as yourself."),
              store_calls |-> <<>>, messages |-> messages]
        ELSE IF gate # Ok
        THEN [result |-> gate, store_calls |-> gate_calls(auth_user_id),
              messages |-> messages]
        ELSE IF fault = "store_message"
        THEN [result |-> StoreFault,
              store_calls |-> Append(gate_calls(auth_user_id), "store_message"),
              messages |-> messages]
        ELSE [result |-> Ok,
              store_calls |-> Append(gate_calls(auth_user_id), "store_message"),
              messages |-> store_store_message(
                               user_id, room_id, msg_id, json_dumps(content))]

send_message(room_id, user_id, auth_user_id, msg_id, content, fault) ==
    /\ messages' = send_message_outcome(room_id, user_id, auth_user_id,
                                        msg_id, content, fault).messages
    /\ UNCHANGED <<rooms, members, path_data, rule_defaults, path_written,
                   requests, member_writes>>

\* store_room_path_data letting any requester with a member row write.
store_room_path_data_outcome_any_row(room_id, auth_user_id, path, content, fault) ==
    IF Truthy(auth_user_id) /\ fault = "get_room_member"
    THEN [result |-> StoreFault, store_calls |-> gate_calls(auth_user_id),
          path_data |-> path_data]
    ELSE IF /\ Truthy(auth_user_id)
            /\ get_joined_or_throw_raises_any_row(room_id, auth_user_id)
    THEN [result |-> NotJoined, store_calls |-> gate_calls(auth_user_id),
          path_data |-> path_data]
    ELSE IF fault = "store_path_data"
    THEN [result |-> StoreFault,
          store_calls |-> Append(gate_calls(auth_user_id), "store_path_data"),
          path_data |-> path_data]
    ELSE [result |-> Ok,
          store_calls |-> Append(gate_calls(auth_user_id), "store_path_data"),
          path_data |-> store_store_path_data(
                            room_id, path, json_dumps(content))]

\* MessageHandler.store_room_path_data
store_room_path_data_outcome(room_id, auth_user_id, path, content, fault) ==
    LET gate == joined_gate(room_id, auth_user_id, fault)
    IN  IF gate # Ok
        THEN [result |-> gate, store_calls |-> gate_calls(auth_user_id),
              path_data |-> path_data]
        ELSE IF fault = "store_path_data"
        THEN [result |-> StoreFault,
              store_calls |-> Append(gate_calls(auth_user_id), "store_path_data"),
              path_data |-> path_data]
        ELSE [result |-> Ok,
              store_calls |-> Append(gate_calls(auth_user_id), "store_path_data"),
              path_data |-> store_store_path_data(
                                room_id, path, json_dumps(content))]

store_room_path_data(room_id, auth_user_id, path, content, fault) ==
    LET out == store_room_path_data_outcome(room_id, auth_user_id, path,
                                            content, fault)
    IN  /\ path_data' = out.path_data
        /\ path_written' = IF out.result = Ok
                           THEN [path_written EXCEPT ![path] = content]
                           ELSE path_written
        /\ UNCHANGED <<rooms, members, messages, rule_defaults,
                       requests, member_writes>>

\* effective_private_rules without the topic override.
effective_private_rules_no_override(type, private_room_rules) ==
    private_room_rules

\* The private rules get_room_path_data applies: the topic override.
effective_private_rules(type, private_room_rules) ==
    IF type = RoomTopicEventTYPE THEN {INVITE, JOIN} ELSE private_room_rules

\* Lines 129-134: the membership state the rules are checked against.
member_state_of(room_id, auth_user_id) ==
    LET member == store_get_room_member(
                      room_id,
                      IF ~Truthy(auth_user_id) THEN "" ELSE auth_user_id)
    IN  IF member # {} THEN (CHOOSE m \in member : TRUE).membership ELSE None

\* Lines 136-144 with the branches exchanged: the public rules are applied
\* to private rooms and the private rules to public ones.
room_rules_result_swapped(is_public, public_room_rules, private_room_rules, member_state) ==
    IF ~is_public /\ public_room_rules # {}
    THEN IF member_state \notin public_room_rules
         THEN RoomError(403, "Member does not meet public room rules.")
         ELSE Ok
    ELSE IF is_public /\ private_room_rules # {}
    THEN IF member_state \notin private_room_rules
         THEN RoomError(403, "Member does not meet private room rules.")
         ELSE Ok
    ELSE Ok

\* Lines 136-144: the rule check, Ok when the read is let through.
room_rules_result(is_public, public_room_rules, private_room_rules, member_state) ==
    IF is_public /\ public_room_rules # {}
    THEN IF member_state \notin public_room_rules
         THEN RoomError(403, "Member does not meet public room rules.")
         ELSE Ok
    ELSE IF ~is_public /\ private_room_rules # {}
    THEN IF member_state \notin private_room_rules
         THEN RoomError(403, "Member does not meet private room rules.")
         ELSE Ok
    ELSE Ok

\* Lines 100-102: the list a rule parameter is bound to, the default object
\* when the caller passes none.
bound_rules(arg, default) == IF arg = Omitted THEN default ELSE arg

\* MessageHandler.get_room_path_data: result, returned data ({} is None)
\* and the Store calls made.
get_room_path_data_outcome(room_id, auth_user_id, type, path, public_room_rules, private_room_rules, fault) ==
    LET public_rules == bound_rules(public_room_rules,
                                    rule_defaults.public_room_rules)
        rules == effective_private_rules(type,
                     bound_rules(private_room_rules,
                                 rule_defaults.private_room_rules))
        found == store_get_room(room_id)
        room == CHOOSE r \in found : TRUE
        member_state == member_state_of(room_id, auth_user_id)
        check == room_rules_result(room.is_public, public_rules, rules,
                                   member_state)
        row == store_get_path_data(path)
    IN  IF fault = "get_room"
        THEN [result |-> StoreFault, returns |-> {},
              store_calls |-> <<"get_room">>]
        ELSE IF found = {}
        THEN [result |-> RoomError(403, "Room does not exist."),
              returns |-> {}, store_calls |-> <<"get_room">>]
        ELSE IF fault = "get_room_member"
        THEN [result |-> StoreFault, returns |-> {},
              store_calls |-> <<"get_room", "get_room_member">>]
        ELSE IF check # Ok
        THEN [result |-> check, returns |-> {},
              store_calls |-> <<"get_room", "get_room_member">>]
        ELSE IF fault = "get_path_data"
        THEN [result |-> StoreFault, returns |-> {},
              store_calls |-> <<"get_room", "get_room_member", "get_path_data">>]
        ELSE [result |-> Ok,
              returns |-> IF row = NoPathRow THEN {} ELSE {row.content},
              store_calls |-> <<"get_room", "get_room_member", "get_path_data">>]

\* get_room_path_data with line 121 changing the list in place instead of
\* rebinding the name: when the caller passed no private rules the list is
\* the default object, which then keeps the topic rules.
get_room_path_data_override_in_place(room_id, auth_user_id, type, path, public_room_rules, private_room_rules, fault) ==
    /\ rule_defaults' =
           IF type = RoomTopicEventTYPE /\ private_room_rules = Omitted
           THEN [rule_defaults EXCEPT !.private_room_rules = {INVITE, JOIN}]
           ELSE rule_defaults
    /\ UNCHANGED <<rooms, members, messages, path_data, path_written,
                   requests, member_writes>>

\* get_room_path_data makes no Store write, and line 121 rebinds the local
\* name private_room_rules, leaving the default argument objects.
get_room_path_data(room_id, auth_user_id, type, path, public_room_rules, private_room_rules, fault) ==
    UNCHANGED <<rooms, members, messages, path_data, rule_defaults, path_written,
                requests, member_writes>>

\* ---------------------------------------------------------------- RoomCreationHandler
\* create_room without the `if not new_room_id` check: a taken id is
\* answered like a fresh one.
create_room_outcome_no_conflict(user_id, room_id, visibility, generated, fault) ==
    LET wanted == IF room_id = None THEN generated ELSE room_id
    IN  IF fault = "store_room"
        THEN [result |-> RoomError(500, "Unable to create room."),
              returns |-> {}, store_calls |-> <<"store_room">>,
              rooms |-> rooms]
        ELSE [result |-> Ok, returns |-> {wanted},
              store_calls |-> <<"store_room">>,
              rooms |-> store_store_room(wanted, user_id,
                                         visibility = "public")]

\* RoomCreationHandler.create_room. room_id None asks the store for an id
\* of its own, `generated`; new_room_id is what store_room answers.
create_room_outcome(user_id, room_id, visibility, generated, fault) ==
    LET wanted == IF room_id = None THEN generated ELSE room_id
        new_room_id == IF store_room_taken(wanted) THEN None ELSE wanted
    IN  IF fault = "store_room"
        THEN [result |-> RoomError(500, "Unable to create room."),
              returns |-> {}, store_calls |-> <<"store_room">>,
              rooms |-> rooms]
        ELSE IF new_room_id = None
        THEN [result |-> RoomError(409, "Room ID in use."),
              returns |-> {}, store_calls |-> <<"store_room">>,
              rooms |-> rooms]
        ELSE [result |-> Ok, returns |-> {new_room_id},
              store_calls |-> <<"store_room">>,
              rooms |-> store_store_room(wanted, user_id,
                                         visibility = "public")]

create_room(user_id, room_id, visibility, generated, fault) ==
    /\ room_id = None => ~store_room_taken(generated)
    /\ rooms' = create_room_outcome(user_id, room_id, visibility,
                                    generated, fault).rooms
    /\ UNCHANGED <<members, messages, path_data, rule_defaults, path_written,
                   requests, member_writes>>

\* ---------------------------------------------------------------- RoomMemberHandler
\* RoomMemberHandler.get_room_member
get_room_member_outcome(room_id, auth_user_id, user_id, fault) ==
    LET gate == joined_gate(room_id, auth_user_id, fault)
    IN  IF gate # Ok
        THEN [result |-> gate, returns |-> {},
              store_calls |-> gate_calls(auth_user_id)]
        ELSE IF fault = "get_room_member_target"
        THEN [result |-> StoreFault, returns |-> {},
              store_calls |-> Append(gate_calls(auth_user_id), "get_room_member")]
        ELSE [result |-> Ok,
              returns |-> store_get_room_member(room_id, user_id),
              store_calls |-> Append(gate_calls(auth_user_id), "get_room_member")]

\* get_room_member makes no Store write.
get_room_member(room_id, auth_user_id, user_id, fault) ==
    UNCHANGED <<rooms, members, messages, path_data, rule_defaults, path_written,
                requests, member_writes>>

\* Lines 218-220: `room = self.store.get_room(...)` is not yielded, so `room`
\* is the Deferred itself, which is true whether or not a row exists: the
\* "Room does not exist" branch is never taken.
room_check_passes(room_id) == TRUE

\* Lines 229 and 238: `x and x[0].membership == "join"` for a list of rows.
in_room(member) == member # {} /\ \A m \in member : m.membership = "join"

\* transition_rule with the invite branch testing the caller alone.
transition_rule_invite_any_target(auth_user_id, user_id, membership, caller, target) ==
    IF INVITE = membership
    THEN IF ~in_room(caller) THEN RoomError(403, "Cannot invite.") ELSE Ok
    ELSE IF JOIN = membership
    THEN IF \/ auth_user_id # user_id
            \/ caller = {}
            \/ \E m \in caller : m.membership \notin {INVITE, JOIN}
         THEN RoomError(403, "Cannot join.") ELSE Ok
    ELSE IF LEAVE = membership
    THEN IF ~in_room(caller) \/ user_id # auth_user_id
         THEN RoomError(403, "Cannot leave.") ELSE Ok
    ELSE RoomError(500, "Unknown membership " \o membership)

\* transition_rule with the join branch letting any caller with a row join.
transition_rule_join_from_any_row(auth_user_id, user_id, membership, caller, target) ==
    IF INVITE = membership
    THEN IF ~in_room(caller) \/ in_room(target)
         THEN RoomError(403, "Cannot invite.") ELSE Ok
    ELSE IF JOIN = membership
    THEN IF auth_user_id # user_id \/ caller = {}
         THEN RoomError(403, "Cannot join.") ELSE Ok
    ELSE IF LEAVE = membership
    THEN IF ~in_room(caller) \/ user_id # auth_user_id
         THEN RoomError(403, "Cannot leave.") ELSE Ok
    ELSE RoomError(500, "Unknown membership " \o membership)

\* transition_rule with the leave branch not comparing caller and target.
transition_rule_leave_for_other(auth_user_id, user_id, membership, caller, target) ==
    IF INVITE = membership
    THEN IF ~in_room(caller) \/ in_room(target)
         THEN RoomError(403, "Cannot invite.") ELSE Ok
    ELSE IF JOIN = membership
    THEN IF \/ auth_user_id # user_id
            \/ caller = {}
            \/ \E m \in caller : m.membership \notin {INVITE, JOIN}
         THEN RoomError(403, "Cannot join.") ELSE Ok
    ELSE IF LEAVE = membership
    THEN IF ~in_room(caller)
         THEN RoomError(403, "Cannot leave.") ELSE Ok
    ELSE RoomError(500, "Unknown membership " \o membership)

\* transition_rule with no final else: an unlisted state falls through.
transition_rule_no_else(auth_user_id, user_id, membership, caller, target) ==
    IF INVITE = membership
    THEN IF ~in_room(caller) \/ in_room(target)
         THEN RoomError(403, "Cannot invite.") ELSE Ok
    ELSE IF JOIN = membership
    THEN IF \/ auth_user_id # user_id
            \/ caller = {}
            \/ \E m \in caller : m.membership \notin {INVITE, JOIN}
         THEN RoomError(403, "Cannot join.") ELSE Ok
    ELSE IF LEAVE = membership
    THEN IF ~in_room(caller) \/ user_id # auth_user_id
         THEN RoomError(403, "Cannot leave.") ELSE Ok
    ELSE Ok

\* transition_rule with the join branch refusing a user who is joined
\* already: only an invitation can be accepted.
transition_rule_join_invited_only(auth_user_id, user_id, membership, caller, target) ==
    IF INVITE = membership
    THEN IF ~in_room(caller) \/ in_room(target)
         THEN RoomError(403, "Cannot invite.") ELSE Ok
    ELSE IF JOIN = membership
    THEN IF \/ auth_user_id # user_id
            \/ caller = {}
            \/ \E m \in caller : m.membership # INVITE
         THEN RoomError(403, "Cannot join.") ELSE Ok
    ELSE IF LEAVE = membership
    THEN IF ~in_room(caller) \/ user_id # auth_user_id
         THEN RoomError(403, "Cannot leave.") ELSE Ok
    ELSE RoomError(500, "Unknown membership " \o membership)

\* Lines 240-259: the result of the transition rule, Ok when it lets the
\* write through. caller and target are the looked-up lists of rows.
transition_rule(auth_user_id, user_id, membership, caller, target) ==
    LET caller_in_room == in_room(caller)
        target_in_room == in_room(target)
    IN  IF INVITE = membership
        THEN IF ~caller_in_room \/ target_in_room
             THEN RoomError(403, "Cannot invite.") ELSE Ok
        ELSE IF JOIN = membership
        THEN IF \/ auth_user_id # user_id
                \/ caller = {}
                \/ \E m \in caller : m.membership \notin {INVITE, JOIN}
             THEN RoomError(403, "Cannot join.") ELSE Ok
        ELSE IF LEAVE = membership
        THEN IF ~caller_in_room \/ user_id # auth_user_id
             THEN RoomError(403, "Cannot leave.") ELSE Ok
        ELSE RoomError(500, "Unknown membership " \o membership)

\* RoomMemberHandler._inject_membership_msg: the message body.
membership_msg_body(source, target, membership) ==
    IF membership = INVITE THEN source \o " invited " \o target \o " to the room."
    ELSE IF membership = JOIN THEN target \o " joined the room."
    ELSE target \o " left the room."

\* _inject_membership_msg building its event with the system actor as the
\* requester too (auth_user_id="_hs_"): send_message then checks it.
inject_membership_msg_outcome_as_requester(room_id, source, target, membership, now, fault) ==
    IF membership \notin {INVITE, JOIN, LEAVE}
    THEN [result |-> RoomError(500, "Unknown membership value " \o membership),
          store_calls |-> <<>>, messages |-> messages]
    ELSE send_message_outcome(
            room_id, "_hs_", "_hs_", "m" \o ToString(now),
            "sy.text:" \o membership_msg_body(source, target, membership),
            fault)

\* RoomMemberHandler._inject_membership_msg: the event it builds goes to
\* MessageHandler.send_message with no requester.
inject_membership_msg_outcome(room_id, source, target, membership, now, fault) ==
    IF membership \notin {INVITE, JOIN, LEAVE}
    THEN [result |-> RoomError(500, "Unknown membership value " \o membership),
          store_calls |-> <<>>, messages |-> messages]
    ELSE send_message_outcome(
            room_id, "_hs_", None, "m" \o ToString(now),
            "sy.text:" \o membership_msg_body(source, target, membership),
            fault)

\* change_membership with the write made before the transition rule is
\* looked at: a refused request has already stored its row.
change_membership_outcome_write_before_rule(auth_user_id, user_id, room_id, membership, content, broadcast_msg, now, fault) ==
    LET caller == store_get_room_member(room_id, auth_user_id)
        target == store_get_room_member(room_id, user_id)
        rule == transition_rule(auth_user_id, user_id, membership,
                                caller, target)
        looked == <<"get_room", "get_room_member", "get_room_member">>
        msg == inject_membership_msg_outcome(room_id, auth_user_id, user_id,
                                             membership, now, fault)
        written == store_store_room_member(room_id, user_id, membership, content)
    IN  IF ~room_check_passes(room_id)
        THEN [result |-> RoomError(403, "Room does not exist"),
              store_calls |-> <<"get_room">>,
              members |-> members, messages |-> messages]
        ELSE IF fault = "get_room_member_caller"
        THEN [result |-> UnboundLocalError,
              store_calls |-> <<"get_room", "get_room_member">>,
              members |-> members, messages |-> messages]
        ELSE IF fault = "get_room_member_target"
        THEN [result |-> UnboundLocalError, store_calls |-> looked,
              members |-> members, messages |-> messages]
        ELSE IF rule # Ok
        THEN [result |-> rule,
              store_calls |-> Append(looked, "store_room_member"),
              members |-> written, messages |-> messages]
        ELSE IF fault = "store_room_member"
        THEN [result |-> StoreFault,
              store_calls |-> Append(looked, "store_room_member"),
              members |-> members, messages |-> messages]
        ELSE IF broadcast_msg
        THEN [result |-> msg.result,
              store_calls |-> Append(looked, "store_room_member")
                                  \o msg.store_calls,
              members |-> written, messages |-> msg.messages]
        ELSE [result |-> Ok,
              store_calls |-> Append(looked, "store_room_member"),
              members |-> written, messages |-> messages]


\* change_membership undoing the member write when the notification fails.
change_membership_outcome_rollback(auth_user_id, user_id, room_id, membership, content, broadcast_msg, now, fault) ==
    LET caller == store_get_room_member(room_id, auth_user_id)
        target == store_get_room_member(room_id, user_id)
        rule == transition_rule(auth_user_id, user_id, membership,
                                caller, target)
        looked == <<"get_room", "get_room_member", "get_room_member">>
        msg == inject_membership_msg_outcome(room_id, auth_user_id, user_id,
                                             membership, now, fault)
        written == store_store_room_member(room_id, user_id, membership, content)
    IN  IF ~room_check_passes(room_id)
        THEN [result |-> RoomError(403, "Room does not exist"),
              store_calls |-> <<"get_room">>,
              members |-> members, messages |-> messages]
        ELSE IF fault = "get_room_member_caller"
        THEN [result |-> UnboundLocalError,
              store_calls |-> <<"get_room", "get_room_member">>,
              members |-> members, messages |-> messages]
        ELSE IF fault = "get_room_member_target"
        THEN [result |-> UnboundLocalError, store_calls |-> looked,
              members |-> members, messages |-> messages]
        ELSE IF rule # Ok
        THEN [result |-> rule, store_calls |-> looked,
              members |-> members, messages |-> messages]
        ELSE IF fault = "store_room_member"
        THEN [result |-> StoreFault,
              store_calls |-> Append(looked, "store_room_member"),
              members |-> members, messages |-> messages]
        ELSE IF broadcast_msg
        THEN [result |-> msg.result,
              store_calls |-> Append(looked, "store_room_member")
                                  \o msg.store_calls,
              members |-> IF msg.result = Ok THEN written ELSE members,
              messages |-> msg.messages]
        ELSE [result |-> Ok,
              store_calls |-> Append(looked, "store_room_member"),
              members |-> written, messages |-> messages]


\* change_membership storing the row under the caller: user_id of
\* store_room_member taken from event.auth_user_id.
change_membership_outcome_writes_caller(auth_user_id, user_id, room_id, membership, content, broadcast_msg, now, fault) ==
    LET caller == store_get_room_member(room_id, auth_user_id)
        target == store_get_room_member(room_id, user_id)
        rule == transition_rule(auth_user_id, user_id, membership,
                                caller, target)
        looked == <<"get_room", "get_room_member", "get_room_member">>
        msg == inject_membership_msg_outcome(room_id, auth_user_id, user_id,
                                             membership, now, fault)
        written == IF auth_user_id \in UserIds
                   THEN store_store_room_member(room_id, auth_user_id,
                                                membership, content)
                   ELSE members
    IN  IF ~room_check_passes(room_id)
        THEN [result |-> RoomError(403, "Room does not exist"),
              store_calls |-> <<"get_room">>,
              members |-> members, messages |-> messages]
        ELSE IF fault = "get_room_member_caller"
        THEN [result |-> UnboundLocalError,
              store_calls |-> <<"get_room", "get_room_member">>,
              members |-> members, messages |-> messages]
        ELSE IF fault = "get_room_member_target"
        THEN [result |-> UnboundLocalError, store_calls |-> looked,
              members |-> members, messages |-> messages]
        ELSE IF rule # Ok
        THEN [result |-> rule, store_calls |-> looked,
              members |-> members, messages |-> messages]
        ELSE IF fault = "store_room_member"
        THEN [result |-> StoreFault,
              store_calls |-> Append(looked, "store_room_member"),
              members |-> members, messages |-> messages]
        ELSE IF broadcast_msg
        THEN [result |-> msg.result,
              store_calls |-> Append(looked, "store_room_member")
                                  \o msg.store_calls,
              members |-> written, messages |-> msg.messages]
        ELSE [result |-> Ok,
              store_calls |-> Append(looked, "store_room_member"),
              members |-> written, messages |-> messages]


\* RoomMemberHandler.change_membership: result, Store calls, and the member
\* and message tables it leaves.
change_membership_outcome(auth_user_id, user_id, room_id, membership, content, broadcast_msg, now, fault) ==
    LET caller == store_get_room_member(room_id, auth_user_id)
        target == store_get_room_member(room_id, user_id)
        rule == transition_rule(auth_user_id, user_id, membership,
                                caller, target)
        looked == <<"get_room", "get_room_member", "get_room_member">>
        msg == inject_membership_msg_outcome(room_id, auth_user_id, user_id,
                                             membership, now, fault)
        written == store_store_room_member(room_id, user_id, membership, content)
    IN  IF ~room_check_passes(room_id)
        THEN [result |-> RoomError(403, "Room does not exist"),
              store_calls |-> <<"get_room">>,
              members |-> members, messages |-> messages]
        ELSE IF fault = "get_room_member_caller"
        THEN [result |-> UnboundLocalError,
              store_calls |-> <<"get_room", "get_room_member">>,
              members |-> members, messages |-> messages]
        ELSE IF fault = "get_room_member_target"
        THEN [result |-> UnboundLocalError, store_calls |-> looked,
              members |-> members, messages |-> messages]
        ELSE IF rule # Ok
        THEN [result |-> rule, store_calls |-> looked,
              members |-> members, messages |-> messages]
        ELSE IF fault = "store_room_member"
        THEN [result |-> StoreFault,
              store_calls |-> Append(looked, "store_room_member"),
              members |-> members, messages |-> messages]
        ELSE IF broadcast_msg
        THEN [result |-> msg.result,
              store_calls |-> Append(looked, "store_room_member")
                                  \o msg.store_calls,
              members |-> written, messages |-> msg.messages]
        ELSE [result |-> Ok,
              store_calls |-> Append(looked, "store_room_member"),
              members |-> written, messages |-> messages]

change_membership(auth_user_id, user_id, room_id, membership, content, broadcast_msg, now, fault) ==
    LET out == change_membership_outcome(auth_user_id, user_id, room_id,
                   membership, content, broadcast_msg, now, fault)
    IN  /\ members' = out.members
        /\ messages' = out.messages
        /\ UNCHANGED <<rooms, path_data, rule_defaults, path_written,
                       requests, member_writes>>

\* ---------------------------------------------------------------- requests in flight
\* The change_membership calls that run interleaved, and the content each
\* sends, by which their writes are told apart.
ReqIds == {"q1", "q2"}
ReqContent == [q \in ReqIds |-> IF q = "q1" THEN "c1" ELSE "c2"]
\* The room the interleaved requests are for, and the states they ask for.
ReqRooms == {"r1"}
ReqStates == {INVITE, JOIN, LEAVE}

\* No result yet: the call has not returned.
Pending == [code |-> -1, msg |-> "pending"]

\* The requests that have arrived.
Arrived == DOMAIN requests

\* Lines 217-226: the call arrives; the room check passes without waiting
\* for the Store, and the call is suspended at the caller lookup.
Arrive(q, auth_user_id, user_id, room_id, membership, broadcast_msg) ==
    /\ q \notin Arrived
    /\ room_check_passes(room_id)
    /\ requests' = [x \in Arrived \cup {q} |->
           IF x # q THEN requests[x]
           ELSE [pc |-> "caller", auth_user_id |-> auth_user_id,
                 user_id |-> user_id, room_id |-> room_id,
                 membership |-> membership, content |-> ReqContent[q],
                 broadcast_msg |-> broadcast_msg, caller |-> {},
                 target |-> {}, result |-> Pending]]
    /\ UNCHANGED <<rooms, members, messages, path_data, rule_defaults,
                   path_written, member_writes>>

\* Lines 223-235: the Store answers the caller lookup; the call goes on to
\* the target lookup and is suspended there. A fault is swallowed, and
\* line 229 then reads the unassigned `caller`.
CallerLookup(q, fault) ==
    LET e == requests[q]
    IN  /\ q \in Arrived
        /\ e.pc = "caller"
        /\ requests' = [requests EXCEPT ![q] =
               IF fault
               THEN [e EXCEPT !.pc = "done", !.result = UnboundLocalError]
               ELSE [e EXCEPT !.pc = "target",
                              !.caller = store_get_room_member(
                                             e.room_id, e.auth_user_id)]]
        /\ UNCHANGED <<rooms, members, messages, path_data, rule_defaults,
                       path_written, member_writes>>

\* Lines 232-266: the Store answers the target lookup; the transition rule
\* is applied to the two answers and the call either ends with the rule's
\* error or is suspended at store_room_member.
TargetLookup(q, fault) ==
    LET e == requests[q]
        target == store_get_room_member(e.room_id, e.user_id)
        rule == transition_rule(e.auth_user_id, e.user_id, e.membership,
                                e.caller, target)
    IN  /\ q \in Arrived
        /\ e.pc = "target"
        /\ requests' = [requests EXCEPT ![q] =
               IF fault
               THEN [e EXCEPT !.pc = "done", !.result = UnboundLocalError]
               ELSE IF rule # Ok
               THEN [e EXCEPT !.pc = "done", !.target = target,
                              !.result = rule]
               ELSE [e EXCEPT !.pc = "write", !.target = target]]
        /\ UNCHANGED <<rooms, members, messages, path_data, rule_defaults,
                       path_written, member_writes>>

\* Lines 262-273: the Store performs store_room_member; the call returns,
\* or goes on to the notification when broadcast_msg is set.
MemberWrite(q, fault) ==
    LET e == requests[q]
    IN  /\ q \in Arrived
        /\ e.pc = "write"
        /\ IF fault
           THEN /\ requests' = [requests EXCEPT ![q] =
                       [e EXCEPT !.pc = "done", !.result = StoreFault]]
                /\ UNCHANGED <<members, member_writes>>
           ELSE /\ members' = store_store_room_member(
                                  e.room_id, e.user_id, e.membership, e.content)
                /\ member_writes' = Append(member_writes,
                       [req |-> q,
                        caller_then |->
                            member_state_of(e.room_id, e.auth_user_id),
                        target_then |->
                            member_state_of(e.room_id, e.user_id)])
                /\ requests' = [requests EXCEPT ![q] =
                       IF e.broadcast_msg
                       THEN [e EXCEPT !.pc = "notify"]
                       ELSE [e EXCEPT !.pc = "done", !.result = Ok]]
        /\ UNCHANGED <<rooms, messages, path_data, rule_defaults,
                       path_written>>

\* Lines 268-304: the notification's send_message stores the message (or
\* the Store faults) and the call returns.
Notify(q, now, fault) ==
    LET e == requests[q]
        msg == inject_membership_msg_outcome(e.room_id, e.auth_user_id,
                   e.user_id, e.membership, now,
                   IF fault THEN "store_message" ELSE NoFault)
    IN  /\ q \in Arrived
        /\ e.pc = "notify"
        /\ messages' = msg.messages
        /\ requests' = [requests EXCEPT ![q] =
               [e EXCEPT !.pc = "done", !.result = msg.result]]
        /\ UNCHANGED <<rooms, members, path_data, rule_defaults,
                       path_written, member_writes>>

\* ---------------------------------------------------------------- system
\* The Store as the handlers find it: one room whose creator has joined it,
\* the other user with no row or a knock, no messages and no path data.
Init ==
    /\ \E pub \in BOOLEAN :
         rooms = {[room_id |-> "r1", is_public |-> pub, creator |-> "A"]}
    /\ \E b \in {NoMember, [membership |-> KNOCK, content |-> "c1"]} :
         members = [r \in RoomIds |-> [u \in UserIds |->
                      IF r = "r1" /\ u = "A"
                      THEN [membership |-> JOIN, content |-> "c1"]
                      ELSE IF r = "r1" THEN b ELSE NoMember]]
    /\ messages = {}
    /\ path_data = [p \in Paths |-> NoPathRow]
    /\ rule_defaults = [public_room_rules |-> DefaultPublicRules,
                        private_room_rules |-> DefaultPrivateRules]
    /\ path_written = [p \in Paths |-> None]
    /\ requests = [q \in {} |-> Pending]
    /\ member_writes = <<>>

\* The message table has room for one more row.
MessageRoom == Cardinality(messages) < MaxMessages

GetMessageFaults == {NoFault, "get_room_member", "get_message"}
SendMessageFaults == {NoFault, "get_room_member", "store_message"}
StorePathFaults == {NoFault, "get_room_member", "store_path_data"}
GetPathFaults == {NoFault, "get_room", "get_room_member", "get_path_data"}
CreateRoomFaults == {NoFault, "store_room"}
GetRoomMemberFaults == {NoFault, "get_room_member", "get_room_member_target"}
ChangeMembershipFaults ==
    {NoFault, "get_room_member_caller", "get_room_member_target",
     "store_room_member", "store_message"}

GetMessage ==
    \E room_id \in RoomIds, auth_user_id \in AuthIds, user_id \in UserIds,
       msg_id \in MsgIds, fault \in GetMessageFaults :
        get_message(room_id, auth_user_id, user_id, msg_id, fault)

SendMessage ==
    /\ MessageRoom
    /\ \E room_id \in RoomIds, user_id \in UserIds, auth_user_id \in AuthIds,
          msg_id \in MsgIds, content \in Contents, fault \in SendMessageFaults :
        send_message(room_id, user_id, auth_user_id, msg_id, content, fault)

StoreRoomPathData ==
    \E room_id \in RoomIds, auth_user_id \in AuthIds, path \in Paths,
       content \in Contents, fault \in StorePathFaults :
        store_room_path_data(room_id, auth_user_id, path, content, fault)

GetRoomPathData ==
    \E room_id \in RoomIds, auth_user_id \in AuthIds, type \in EventTypes,
       path \in Paths, rule_args \in RuleArgPairs, fault \in GetPathFaults :
        get_room_path_data(room_id, auth_user_id, type, path,
                           rule_args[1], rule_args[2], fault)

CreateRoom ==
    \E user_id \in UserIds, room_id \in RoomIds \cup {None},
       visibility \in Visibilities, generated \in RoomIds,
       fault \in CreateRoomFaults :
        create_room(user_id, room_id, visibility, generated, fault)

GetRoomMember ==
    \E room_id \in RoomIds, auth_user_id \in AuthIds, user_id \in UserIds,
       fault \in GetRoomMemberFaults :
        get_room_member(room_id, auth_user_id, user_id, fault)

ChangeMembership ==
    \E auth_user_id \in AuthIds, user_id \in UserIds, room_id \in RoomIds,
       membership \in RequestedStates, content \in Contents,
       broadcast_msg \in BOOLEAN, now \in Times,
       fault \in ChangeMembershipFaults :
        /\ broadcast_msg => MessageRoom
        /\ change_membership(auth_user_id, user_id, room_id, membership,
                             content, broadcast_msg, now, fault)

Next ==
    \/ GetMessage
    \/ SendMessage
    \/ StoreRoomPathData
    \/ GetRoomPathData
    \/ CreateRoom
    \/ GetRoomMember
    \/ ChangeMembership

Spec == Init /\ [][Next]_vars

\* The handlers of rooms, member rows and path data, with several contents
\* to write: memberships change without a notification and no message is
\* sent.
StoreRoomPathDataContents ==
    \E room_id \in RoomIds, auth_user_id \in AuthIds, path \in Paths,
       content \in PathContents, fault \in StorePathFaults :
        store_room_path_data(room_id, auth_user_id, path, content, fault)

ChangeMembershipSilent ==
    \E auth_user_id \in AuthIds, user_id \in UserIds, room_id \in RoomIds,
       membership \in RequestedStates, content \in Contents, now \in Times,
       fault \in ChangeMembershipFaults :
        change_membership(auth_user_id, user_id, room_id, membership,
                          content, FALSE, now, fault)

NextQuiet ==
    \/ StoreRoomPathDataContents
    \/ GetRoomPathData
    \/ ChangeMembershipSilent
    \/ CreateRoom

SpecQuiet == Init /\ [][NextQuiet]_vars

\* The membership changes and their notifications, with the messages sent
\* by users.
NextNotify ==
    \/ ChangeMembership
    \/ SendMessage

SpecNotify == Init /\ [][NextNotify]_vars

\* change_membership calls interleaved at their Store calls: the Store holds
\* one room with any of the member rows the handlers can leave in it, and
\* each request runs once, one Store call at a time.
InitConc ==
    /\ rooms = {[room_id |-> "r1", is_public |-> FALSE, creator |-> "A"]}
    /\ \E a \in {JOIN, LEAVE}, b \in {None, INVITE, JOIN, LEAVE} :
         members = [r \in RoomIds |-> [u \in UserIds |->
                      IF r = "r1" /\ u = "A"
                      THEN [membership |-> a, content |-> "c0"]
                      ELSE IF r = "r1" /\ b # None
                      THEN [membership |-> b, content |-> "c0"]
                      ELSE NoMember]]
    /\ messages = {}
    /\ path_data = [p \in Paths |-> NoPathRow]
    /\ rule_defaults = [public_room_rules |-> DefaultPublicRules,
                        private_room_rules |-> DefaultPrivateRules]
    /\ path_written = [p \in Paths |-> None]
    /\ requests = [q \in {} |-> Pending]
    /\ member_writes = <<>>

RequestArrives ==
    \E q \in ReqIds, auth_user_id \in UserIds, user_id \in UserIds,
       room_id \in ReqRooms, membership \in ReqStates,
       broadcast_msg \in BOOLEAN :
        Arrive(q, auth_user_id, user_id, room_id, membership, broadcast_msg)

StoreAnswersCaller ==
    \E q \in ReqIds, fault \in BOOLEAN : CallerLookup(q, fault)

StoreAnswersTarget ==
    \E q \in ReqIds, fault \in BOOLEAN : TargetLookup(q, fault)

StoreWritesMember ==
    \E q \in ReqIds, fault \in BOOLEAN : MemberWrite(q, fault)

StoreWritesNotification ==
    \E q \in ReqIds, now \in Times, fault \in BOOLEAN : Notify(q, now, fault)

NextConc ==
    \/ RequestArrives
    \/ StoreAnswersCaller
    \/ StoreAnswersTarget
    \/ StoreWritesMember
    \/ StoreWritesNotification

SpecConc == InitConc /\ [][NextConc]_vars

\* ---------------------------------------------------------------- properties
\* The vocabulary of the claims: the state stored for a user in a room (None
\* without a row or without an id), and whether the Store holds the room.
Stored(room_id, user_id) ==
    IF user_id \in UserIds THEN members[room_id][user_id].membership ELSE None

RoomExists(room_id) == \E r \in rooms : r.room_id = room_id

\* s names a Store call among the calls made.
Called(store_calls, s) == \E i \in DOMAIN store_calls : store_calls[i] = s

\* How many of the calls made are calls of s.
TimesCalled(store_calls, s) ==
    Cardinality({i \in DOMAIN store_calls : store_calls[i] = s})

\* The request's call was ended by a fault of the Store.
Faulted(q) == requests[q].result \in {UnboundLocalError, StoreFault}

\* The Store has performed the request's store_room_member.
Wrote(q) == \E i \in DOMAIN member_writes : member_writes[i].req = q

\* The state of the row a lookup was answered with (None: no row).
SeenState(rows) ==
    IF rows = {} THEN None ELSE (CHOOSE m \in rows : TRUE).membership

\* The transition table in terms of the stored states: caller c may put
\* target t of room r into state s.
Allowed(c, t, r, s) ==
    \/ s = INVITE /\ Stored(r, c) = JOIN /\ Stored(r, t) # JOIN
    \/ s = JOIN /\ c = t /\ Stored(r, c) \in {INVITE, JOIN}
    \/ s = LEAVE /\ c = t /\ Stored(r, c) = JOIN

\* C1: in an existing room, an INVITE request (no Store fault) is let through
\* iff the caller's stored state is JOIN and the target's is not JOIN; then
\* the target's stored state becomes INVITE; otherwise the call fails with
\* 403 "Cannot invite." and the member table is as before.
C1_InviteIffCallerJoinedTargetNot ==
    \A c \in AuthIds, t \in UserIds, r \in RoomIds, k \in Contents,
       b \in BOOLEAN, now \in Times :
        RoomExists(r) =>
            LET out == change_membership_outcome(c, t, r, INVITE, k, b, now,
                                                 NoFault)
                allowed == Stored(r, c) = JOIN /\ Stored(r, t) # JOIN
            IN  /\ (out.result = Ok) <=> allowed
                /\ allowed => out.members[r][t].membership = INVITE
                /\ ~allowed => /\ out.result = RoomError(403, "Cannot invite.")
                               /\ out.members = members

\* C1 witness: both users are joined (B through A's invite and its own join)
\* and A's second invite of B is denied, while B's invite of a user who has
\* left would be let through.
C1_Witness ==
    /\ Stored("r1", "A") = JOIN /\ Stored("r1", "B") = JOIN
    /\ change_membership_outcome("A", "B", "r1", INVITE, "c1", FALSE, 1,
                                 NoFault).result
           = RoomError(403, "Cannot invite.")

\* C2: in an existing room, a JOIN request (no Store fault) is let through
\* iff caller = target and the caller's stored state is INVITE or JOIN;
\* otherwise it fails with 403 "Cannot join."; a JOIN by a user already JOIN
\* succeeds and leaves that user's state JOIN.
C2_JoinIffSelfAndInvitedOrJoined ==
    \A c \in AuthIds, t \in UserIds, r \in RoomIds, k \in Contents,
       b \in BOOLEAN, now \in Times :
        RoomExists(r) =>
            LET out == change_membership_outcome(c, t, r, JOIN, k, b, now,
                                                 NoFault)
                allowed == c = t /\ Stored(r, c) \in {INVITE, JOIN}
            IN  /\ (out.result = Ok) <=> allowed
                /\ allowed => out.members[r][t].membership = JOIN
                /\ ~allowed => /\ out.result = RoomError(403, "Cannot join.")
                               /\ out.members = members
                /\ (c = t /\ Stored(r, t) = JOIN) =>
                       /\ out.result = Ok
                       /\ \A u \in UserIds :
                            out.members[r][u].membership = Stored(r, u)

\* C2 witness: B is joined, so B's JOIN is a re-join, and A, who has left,
\* is refused a JOIN.
C2_Witness ==
    /\ Stored("r1", "B") = JOIN /\ Stored("r1", "A") = LEAVE
    /\ change_membership_outcome("B", "B", "r1", JOIN, "c1", FALSE, 1,
                                 NoFault).result = Ok
    /\ change_membership_outcome("A", "A", "r1", JOIN, "c1", FALSE, 1,
                                 NoFault).result
           = RoomError(403, "Cannot join.")

\* C3: in an existing room, a LEAVE request (no Store fault) is let through
\* iff caller = target and the caller's stored state is JOIN; then the
\* target's state becomes LEAVE; otherwise it fails with 403 "Cannot leave."
\* and the target's stored state is unchanged.
C3_LeaveIffSelfAndJoined ==
    \A c \in AuthIds, t \in UserIds, r \in RoomIds, k \in Contents,
       b \in BOOLEAN, now \in Times :
        RoomExists(r) =>
            LET out == change_membership_outcome(c, t, r, LEAVE, k, b, now,
                                                 NoFault)
                allowed == c = t /\ Stored(r, c) = JOIN
            IN  /\ (out.result = Ok) <=> allowed
                /\ allowed => out.members[r][t].membership = LEAVE
                /\ ~allowed => /\ out.result = RoomError(403, "Cannot leave.")
                               /\ out.members[r][t] = members[r][t]

\* C3 witness: A and B are both joined; A cannot make B leave, B can leave.
C3_Witness ==
    /\ Stored("r1", "A") = JOIN /\ Stored("r1", "B") = JOIN
    /\ change_membership_outcome("A", "B", "r1", LEAVE, "c1", FALSE, 1,
                                 NoFault).result
           = RoomError(403, "Cannot leave.")
    /\ change_membership_outcome("B", "B", "r1", LEAVE, "c1", FALSE, 1,
                                 NoFault).members["r1"]["B"].membership = LEAVE

\* C4: change_membership on a room id the Store holds no room for fails
\* with 403 "Room does not exist", whatever the request, and makes no
\* member write and no notification.
C4_NoRoomIsRefused ==
    \A c \in AuthIds, t \in UserIds, r \in RoomIds, s \in RequestedStates,
       k \in Contents, b \in BOOLEAN, now \in Times :
        ~RoomExists(r) =>
            LET out == change_membership_outcome(c, t, r, s, k, b, now, NoFault)
            IN  /\ out.result = RoomError(403, "Room does not exist")
                /\ ~Called(out.store_calls, "store_room_member")
                /\ ~Called(out.store_calls, "store_message")

\* C5: in an existing room, a request for a state other than INVITE, JOIN or
\* LEAVE (KNOCK, or a value outside the enum) fails with the 500 "Unknown
\* membership" error and writes nothing; every write change_membership
\* makes stores INVITE, JOIN or LEAVE, and every stored state is an enum
\* value.
C5_UnknownStateRefused ==
    /\ \A c \in AuthIds, t \in UserIds, r \in RoomIds, s \in RequestedStates,
          k \in Contents, b \in BOOLEAN, now \in Times :
        LET out == change_membership_outcome(c, t, r, s, k, b, now, NoFault)
        IN  /\ (RoomExists(r) /\ s \notin {INVITE, JOIN, LEAVE}) =>
                /\ out.result = RoomError(500, "Unknown membership " \o s)
                /\ out.members = members /\ out.messages = messages
                /\ ~Called(out.store_calls, "store_room_member")
            /\ Called(out.store_calls, "store_room_member") =>
                out.members[r][t].membership \in {INVITE, JOIN, LEAVE}
    /\ \A r \in RoomIds, u \in UserIds :
        members[r][u].membership \in Membership \cup {None}

\* C5 witness: a state reached through writes of the handler (B was invited)
\* in which a KNOCK request by the joined user A on B is answered 500.
C5_Witness ==
    /\ Stored("r1", "A") = JOIN /\ Stored("r1", "B") = INVITE
    /\ change_membership_outcome("A", "B", "r1", KNOCK, "c1", FALSE, 1,
                                 NoFault).result.code = 500

\* C6: send_message with a requester stores the message iff the author is
\* the requester and the requester's stored state is JOIN; a foreign author
\* is refused first, with "Must send messages as yourself." (whether or not
\* the requester is joined), then a requester who is not JOIN with
\* "Haven't joined room."; a refused call makes no store_message call and
\* leaves the table; with no requester the message is stored unchecked.
C6_SendIffSelfAndJoined ==
    \A r \in RoomIds, u \in UserIds \cup {"_hs_"}, a \in AuthIds,
       i \in MsgIds, k \in Contents :
        LET out == send_message_outcome(r, u, a, i, k, NoFault)
            row == [room_id |-> r, user_id |-> u, msg_id |-> i,
                    content |-> json_dumps(k)]
            stored == /\ out.result = Ok
                      /\ Called(out.store_calls, "store_message")
                      /\ out.messages = messages \cup {row}
            refused(e) == /\ out.result = e
                          /\ ~Called(out.store_calls, "store_message")
                          /\ out.messages = messages
        IN  IF a = None THEN stored /\ out.store_calls = <<"store_message">>
            ELSE IF u # a
            THEN refused(RoomError(403, "Must send messages as yourself."))
            ELSE IF Stored(r, a) # JOIN THEN refused(NotJoined)
            ELSE stored

\* C6 witness: A is joined and B was invited; A sending as B is refused for
\* the author, B sending as itself is refused for not being joined, A
\* sending as itself is stored.
C6_Witness ==
    /\ Stored("r1", "A") = JOIN /\ Stored("r1", "B") = INVITE
    /\ send_message_outcome("r1", "B", "A", "x1", "c1", NoFault).result
           = RoomError(403, "Must send messages as yourself.")
    /\ send_message_outcome("r1", "B", "B", "x1", "c1", NoFault).result
           = NotJoined
    /\ send_message_outcome("r1", "A", "A", "x1", "c1", NoFault).messages
           # messages

\* The rule list get_room_path_data is to apply in a room: the public rules
\* in a public room, else the private rules, which for a topic event are
\* invite and join.
ApplicableRules(room_id, type, public_room_rules, private_room_rules) ==
    IF \E r \in rooms : r.room_id = room_id /\ r.is_public
    THEN public_room_rules
    ELSE IF type = RoomTopicEventTYPE THEN {INVITE, JOIN}
    ELSE private_room_rules

\* C7: get_room_path_data (no Store fault) on an existing room is allowed iff
\* the applicable rule list is empty or holds the requester's stored state
\* (None without a row or without a requester); on a room the Store does not
\* hold it answers 403 "Room does not exist."; store.get_path_data is called
\* iff the read is allowed.
C7_PathReadIffRulesMet ==
    \A r \in RoomIds, a \in AuthIds, ty \in EventTypes, p \in Paths,
       pub \in RuleLists, priv \in RuleLists :
        LET out == get_room_path_data_outcome(r, a, ty, p, pub, priv, NoFault)
            rules == ApplicableRules(r, ty, pub, priv)
            allowed == RoomExists(r) /\ (rules = {} \/ Stored(r, a) \in rules)
        IN  /\ (out.result = Ok) <=> allowed
            /\ Called(out.store_calls, "get_path_data") <=> allowed
            /\ ~RoomExists(r) =>
                   out.result = RoomError(403, "Room does not exist.")
            /\ (RoomExists(r) /\ ~allowed) => out.result.code = 403

\* C7 witness: a public and a private room exist and some path data is
\* stored; with the default rules a request without requester reads it in
\* the public room, and B, who has no row, is refused in the private one.
C7_Witness ==
    /\ \E r \in rooms : r.room_id = "r2" /\ r.is_public
    /\ \E r \in rooms : r.room_id = "r1" /\ ~r.is_public
    /\ Stored("r1", "B") = None
    /\ get_room_path_data_outcome("r2", None, MessageEventTYPE, "p1",
           DefaultPublicRules, DefaultPrivateRules, NoFault).returns # {}
    /\ get_room_path_data_outcome("r1", "B", MessageEventTYPE, "p1",
           DefaultPublicRules, DefaultPrivateRules, NoFault).result
           = RoomError(403, "Member does not meet private room rules.")

\* C8: for a topic event in a private room the read is allowed iff the
\* requester's stored state is INVITE or JOIN, whatever private rules are
\* passed (LEAVE, KNOCK, no row: refused); a user whose state is INVITE is
\* refused the same room's non-topic path under the default rules.
C8_TopicOverride ==
    \A r \in rooms, a \in AuthIds, p \in Paths, pub \in RuleLists,
       priv \in RuleLists :
        ~r.is_public =>
            /\ (get_room_path_data_outcome(r.room_id, a, RoomTopicEventTYPE, p,
                    pub, priv, NoFault).result = Ok)
                   <=> Stored(r.room_id, a) \in {INVITE, JOIN}
            /\ Stored(r.room_id, a) = INVITE =>
                   get_room_path_data_outcome(r.room_id, a, MessageEventTYPE,
                       p, DefaultPublicRules, DefaultPrivateRules,
                       NoFault).result
                   = RoomError(403, "Member does not meet private room rules.")

\* C8 witness: in a private room B is invited and A has left; B reads the
\* topic path, A does not.
C8_Witness ==
    /\ \E r \in rooms : r.room_id = "r1" /\ ~r.is_public
    /\ Stored("r1", "B") = INVITE /\ Stored("r1", "A") = LEAVE
    /\ get_room_path_data_outcome("r1", "B", RoomTopicEventTYPE, "p1",
           DefaultPublicRules, DefaultPrivateRules, NoFault).result = Ok
    /\ get_room_path_data_outcome("r1", "A", RoomTopicEventTYPE, "p1",
           DefaultPublicRules, DefaultPrivateRules, NoFault).result.code = 403

\* What C9 asks of create_room with an explicit id (no Store fault): a
\* taken id is answered 409 "Room ID in use." and the table is left as it
\* is; a free id is returned and its row added.
C9_CreateRoom ==
    \A u \in UserIds, r \in RoomIds, v \in Visibilities :
        LET out == create_room_outcome(u, r, v, r, NoFault)
        IN  IF RoomExists(r)
            THEN /\ out.result = RoomError(409, "Room ID in use.")
                 /\ out.returns = {}
                 /\ out.rooms = rooms
            ELSE /\ out.result = Ok
                 /\ out.returns = {r}
                 /\ out.rooms = rooms \cup
                        {[room_id |-> r, is_public |-> (v = "public"),
                          creator |-> u]}

\* What C9 asks of every step: no room row is removed or changed (its
\* is_public flag and creator stay), and no two rows share a room id.
C9_Frame ==
    /\ \A r \in rooms : r \in rooms'
    /\ \A x \in rooms', y \in rooms' : x.room_id = y.room_id => x = y

\* C9: room ids are unique and rooms immutable: of the create_room calls
\* for one explicit id the one that finds it free returns it and every later
\* one is answered 409, leaving the room's is_public flag and creator; and
\* no step of any handler changes or removes a room row.
C9_RoomIdsUniqueRoomsImmutable == []C9_CreateRoom /\ [][C9_Frame]_vars

\* C9 witness: r2 was created public by B; creating it again as a private
\* room of A is answered 409 and would leave the row.
C9_Witness ==
    /\ [room_id |-> "r2", is_public |-> TRUE, creator |-> "B"] \in rooms
    /\ create_room_outcome("A", "r2", "private", "r2", NoFault).result
           = RoomError(409, "Room ID in use.")
    /\ create_room_outcome("A", "r2", "private", "r2", NoFault).rooms = rooms

\* C10: get_message (no Store fault) with a requester whose stored state is
\* not JOIN fails with 403 "Haven't joined room." without calling
\* store.get_message; otherwise (requester JOIN, or no requester) it
\* succeeds and returns a stored row for (room, user, msg id) if there is
\* one and None if there is none; it makes no Store write.
C10_GetMessageGate ==
    \A r \in RoomIds, a \in AuthIds, u \in UserIds \cup {"_hs_"},
       i \in MsgIds \cup {"m1"} :
        LET out == get_message_outcome(r, a, u, i, NoFault)
            denied == a # None /\ Stored(r, a) # JOIN
            match == {m \in messages : m.room_id = r /\ m.user_id = u
                                       /\ m.msg_id = i}
        IN  /\ denied => /\ out.result = NotJoined
                         /\ ~Called(out.store_calls, "get_message")
            /\ ~denied =>
                /\ out.result = Ok
                /\ out.returns # {}
                /\ \A v \in out.returns :
                     IF match = {} THEN v = {}
                     ELSE \E m \in match : v = {m}
            /\ \A n \in DOMAIN out.store_calls :
                 out.store_calls[n] \in {"get_room_member", "get_message"}

\* C10 witness: A is joined and has a message stored, B is not joined; B is
\* refused, A gets its message back, and A asking for a message of B, of
\* which there is none, gets None.
C10_Witness ==
    /\ Stored("r1", "A") = JOIN /\ Stored("r1", "B") = LEAVE
    /\ get_message_outcome("r1", "B", "A", "x1", NoFault).result = NotJoined
    /\ \E m \in messages :
         get_message_outcome("r1", "A", "A", "x1", NoFault).returns = {{m}}
    /\ get_message_outcome("r1", "A", "B", "x1", NoFault).returns = {{}}

\* C11: store_room_path_data (no Store fault) with a requester writes iff
\* the requester's stored state in the room is JOIN, and is otherwise
\* refused with "Haven't joined room." leaving the path data; with no
\* requester it always writes; a write leaves the json text of its content
\* as the row of the path, whatever the row was.
C11_WriteGate ==
    \A r \in RoomIds, a \in AuthIds, p \in Paths, c \in PathContents :
        LET out == store_room_path_data_outcome(r, a, p, c, NoFault)
            written == /\ out.result = Ok
                       /\ Called(out.store_calls, "store_path_data")
                       /\ out.path_data =
                              [path_data EXCEPT ![p] =
                                  [room_id |-> r, content |-> json_dumps(c)]]
        IN  IF a = None \/ Stored(r, a) = JOIN
            THEN written
            ELSE /\ out.result = NotJoined
                 /\ ~Called(out.store_calls, "store_path_data")
                 /\ out.path_data = path_data

\* C11, the read after the writes: a path never written successfully has
\* no data, and an allowed read (no Store fault) of a path returns the json
\* text of the content of the latest successful write to that path.
C11_ReadsLatestWrite ==
    \A r \in RoomIds, a \in AuthIds, ty \in EventTypes, p \in Paths,
       pub \in RuleArgs, priv \in RuleArgs :
        LET read == get_room_path_data_outcome(r, a, ty, p, pub, priv, NoFault)
        IN  read.result = Ok =>
                read.returns = IF path_written[p] = None THEN {}
                               ELSE {json_dumps(path_written[p])}

C12_NoPartialEffect ==
    /\ \A c \in AuthIds, t \in UserIds, r \in RoomIds, s \in RequestedStates,
          k \in Contents, b \in BOOLEAN, now \in Times,
          f \in ChangeMembershipFaults :
        LET out == change_membership_outcome(c, t, r, s, k, b, now, f)
        IN  out.result # Ok =>
                out.members = members /\ out.messages = messages
    /\ \A r \in RoomIds, u \in UserIds, a \in AuthIds, i \in MsgIds,
          k \in Contents, f \in SendMessageFaults :
        LET out == send_message_outcome(r, u, a, i, k, f)
        IN  out.result # Ok => out.messages = messages
    /\ \A r \in RoomIds, a \in AuthIds, p \in Paths, k \in PathContents,
          f \in StorePathFaults :
        LET out == store_room_path_data_outcome(r, a, p, k, f)
        IN  out.result # Ok => out.path_data = path_data
    /\ \A u \in UserIds, r \in RoomIds, v \in Visibilities,
          f \in CreateRoomFaults :
        LET out == create_room_outcome(u, r, v, r, f)
        IN  out.result # Ok => out.rooms = rooms

\* C12 amended: the same, except that a change_membership with broadcast_msg
\* whose error comes from the notification (its store_message call was
\* made) has its member write committed: the target's row is the requested
\* one, every other row and the message table are as before. An error
\* without a store_message call leaves all tables as before.
C12_NoPartialEffectButNotifier ==
    /\ \A c \in AuthIds, t \in UserIds, r \in RoomIds, s \in RequestedStates,
          k \in Contents, b \in BOOLEAN, now \in Times,
          f \in ChangeMembershipFaults :
        LET out == change_membership_outcome(c, t, r, s, k, b, now, f)
        IN  out.result # Ok =>
                /\ out.messages = messages
                /\ IF Called(out.store_calls, "store_message")
                   THEN /\ b
                        /\ out.members = [members EXCEPT ![r][t] =
                               [membership |-> s, content |-> k]]
                   ELSE out.members = members
    /\ \A r \in RoomIds, u \in UserIds, a \in AuthIds, i \in MsgIds,
          k \in Contents, f \in SendMessageFaults :
        LET out == send_message_outcome(r, u, a, i, k, f)
        IN  out.result # Ok => out.messages = messages
    /\ \A r \in RoomIds, a \in AuthIds, p \in Paths, k \in PathContents,
          f \in StorePathFaults :
        LET out == store_room_path_data_outcome(r, a, p, k, f)
        IN  out.result # Ok => out.path_data = path_data
    /\ \A u \in UserIds, r \in RoomIds, v \in Visibilities,
          f \in CreateRoomFaults :
        LET out == create_room_outcome(u, r, v, r, f)
        IN  out.result # Ok => out.rooms = rooms

\* C12 witness: B was invited by the joined A. B's JOIN with broadcast_msg
\* whose notification fails ends with the Store's fault and B's row already
\* "join"; B's JOIN failing at the member write, and A's refused LEAVE of B,
\* leave the rows.
C12_Witness ==
    /\ Stored("r1", "A") = JOIN /\ Stored("r1", "B") = INVITE
    /\ LET late == change_membership_outcome("B", "B", "r1", JOIN, "c1", TRUE,
                                             1, "store_message")
           early == change_membership_outcome("B", "B", "r1", JOIN, "c1", TRUE,
                                              1, "store_room_member")
           refused == change_membership_outcome("A", "B", "r1", LEAVE, "c1",
                                                TRUE, 1, NoFault)
       IN  /\ late.result = StoreFault
           /\ late.members["r1"]["B"].membership = JOIN
           /\ late.messages = messages
           /\ early.result = StoreFault /\ early.members = members
           /\ refused.result.code = 403 /\ refused.members = members

\* C13: when change_membership is called with broadcast_msg, the transition
\* is allowed and the member write succeeds, but the notification's
\* store_message fails, the call ends with the Store's fault, the target's
\* row is the requested state and content (every other row as before), no
\* message is stored, and exactly one store_message call was made, after
\* the one store_room_member call.
C13_NotifierFailureKeepsWrite ==
    \A c \in AuthIds, t \in UserIds, r \in RoomIds, s \in RequestedStates,
       k \in Contents, now \in Times :
        Allowed(c, t, r, s) =>
            LET out == change_membership_outcome(c, t, r, s, k, TRUE, now,
                                                 "store_message")
                n == Len(out.store_calls)
            IN  /\ out.result = StoreFault
                /\ out.members = [members EXCEPT ![r][t] =
                       [membership |-> s, content |-> k]]
                /\ out.messages = messages
                /\ TimesCalled(out.store_calls, "store_message") = 1
                /\ TimesCalled(out.store_calls, "store_room_member") = 1
                /\ n >= 2
                /\ out.store_calls[n] = "store_message"
                /\ out.store_calls[n - 1] = "store_room_member"

\* C13 witness: A and B are joined; A's LEAVE with broadcast_msg whose
\* notification fails ends with the fault and A's row already "leave".
C13_Witness ==
    /\ Stored("r1", "A") = JOIN /\ Stored("r1", "B") = JOIN
    /\ LET out == change_membership_outcome("A", "A", "r1", LEAVE, "c1", TRUE,
                                            1, "store_message")
       IN  /\ out.result = StoreFault
           /\ out.members["r1"]["A"].membership = LEAVE
           /\ out.members["r1"]["B"] = members["r1"]["B"]

\* C14: when both requests in flight are JOIN requests of one user u for
\* itself and u's stored state is INVITE or JOIN, then in every interleaving
\* of their Store calls neither is refused, each that returns without a
\* Store fault returns ok after its write was performed, once both have
\* returned ok two writes were made, and u's row is state JOIN with the
\* content of the write the Store performed last.
C14_ConcurrentJoinsLastWriterWins ==
    \A u \in UserIds, r \in ReqRooms :
        (/\ \A q \in ReqIds :
               /\ q \in Arrived
               /\ requests[q].membership = JOIN
               /\ requests[q].auth_user_id = u
               /\ requests[q].user_id = u
               /\ requests[q].room_id = r
         /\ Stored(r, u) \in {INVITE, JOIN})
        => /\ \A q \in ReqIds :
                /\ requests[q].result.code # 403
                /\ (requests[q].pc = "done" /\ ~Faulted(q)) =>
                       requests[q].result = Ok /\ Wrote(q)
           /\ (\A q \in ReqIds : requests[q].result = Ok) =>
                  Len(member_writes) = Cardinality(ReqIds)
           /\ member_writes # <<>> =>
                  members[r][u] =
                      [membership |-> JOIN,
                       content |->
                           ReqContent[member_writes[Len(member_writes)].req]]

\* C14 witness: both requests were B's JOIN, both were answered that B is
\* invited, q2's write was performed first and q1's last, both returned ok,
\* and B's row has q1's content.
C14_Witness ==
    /\ \A q \in ReqIds :
          /\ q \in Arrived
          /\ requests[q].membership = JOIN
          /\ requests[q].auth_user_id = "B" /\ requests[q].user_id = "B"
          /\ SeenState(requests[q].caller) = INVITE
          /\ requests[q].result = Ok
    /\ Len(member_writes) = 2
    /\ member_writes[1].req = "q2" /\ member_writes[2].req = "q1"
    /\ members["r1"]["B"] = [membership |-> JOIN, content |-> ReqContent["q1"]]

\* C18 as stated: every member write of the interleaved requests meets its
\* transition rule against the rows the Store holds at the moment of the
\* write: an INVITE write replaces no row whose state is JOIN and its
\* caller's row is JOIN, a LEAVE write lands on a JOIN row, a JOIN write on
\* an INVITE or JOIN row.
C18_WritesMeetRuleAtWrite ==
    \A i \in DOMAIN member_writes :
        LET w == member_writes[i]
            e == requests[w.req]
        IN  /\ e.membership = INVITE =>
                   w.target_then # JOIN /\ w.caller_then = JOIN
            /\ e.membership = LEAVE => w.target_then = JOIN
            /\ e.membership = JOIN => w.target_then \in {INVITE, JOIN}

\* C18 amended: every request that gets to its member write met its
\* transition rule against the rows the Store answered its own lookups
\* with: INVITE, the caller's row was JOIN and the target's was not; JOIN,
\* caller is target and the row was INVITE or JOIN; LEAVE, caller is target
\* and the row was JOIN.
C18_WritesMeetRuleAtLookup ==
    \A q \in Arrived :
        LET e == requests[q]
            caller == SeenState(e.caller)
            target == SeenState(e.target)
        IN  (e.pc \in {"write", "notify"} \/ Wrote(q)) =>
                /\ e.membership \in {INVITE, JOIN, LEAVE}
                /\ e.membership = INVITE => caller = JOIN /\ target # JOIN
                /\ e.membership = JOIN =>
                       e.auth_user_id = e.user_id /\ caller \in {INVITE, JOIN}
                /\ e.membership = LEAVE =>
                       e.auth_user_id = e.user_id /\ caller = JOIN

\* C18 witness: A's INVITE of B was checked while B was invited, B's JOIN
\* was written in between, and A's INVITE write then replaced B's JOIN row.
C18_Witness ==
    \E i \in DOMAIN member_writes :
        LET w == member_writes[i]
            e == requests[w.req]
        IN  /\ e.membership = INVITE
            /\ e.auth_user_id = "A" /\ e.user_id = "B"
            /\ SeenState(e.target) = INVITE
            /\ w.target_then = JOIN
            /\ Stored("r1", "B") = INVITE

\* C15: change_membership calls store_message only with broadcast_msg set
\* and after its store_room_member call, the target's row then being the
\* requested one; a call that ends with an error, or has no broadcast_msg,
\* leaves the message table; an allowed call with broadcast_msg and no Store
\* fault stores a message of "_hs_" in the room, although "_hs_" has no
\* member row there and the same send with "_hs_" as requester is refused.
C15_NotificationAfterWrite ==
    \A c \in AuthIds, t \in UserIds, r \in RoomIds, s \in RequestedStates,
       k \in Contents, b \in BOOLEAN, now \in Times,
       f \in ChangeMembershipFaults :
        LET out == change_membership_outcome(c, t, r, s, k, b, now, f)
            calls == out.store_calls
        IN  /\ Called(calls, "store_message") =>
                /\ b
                /\ Allowed(c, t, r, s)
                /\ \E i \in DOMAIN calls, j \in DOMAIN calls :
                      /\ i < j
                      /\ calls[i] = "store_room_member"
                      /\ calls[j] = "store_message"
                /\ out.members[r][t] = [membership |-> s, content |-> k]
            /\ out.messages # messages =>
                /\ Called(calls, "store_message") /\ out.result = Ok
                /\ \A m \in out.messages \ messages : m.user_id = "_hs_"
            /\ (out.result # Ok \/ ~b) => out.messages = messages
            /\ (b /\ Allowed(c, t, r, s) /\ f = NoFault) =>
                /\ out.result = Ok
                /\ \E m \in out.messages :
                      /\ m.user_id = "_hs_" /\ m.room_id = r
                      /\ m.msg_id = "m" \o ToString(now)
                /\ Stored(r, "_hs_") = None
                /\ send_message_outcome(r, "_hs_", "_hs_",
                       "m" \o ToString(now), k, NoFault).result = NotJoined

\* C15 witness: A's INVITE of B with broadcast_msg was carried out: B's row
\* is "invite" and a message of "_hs_" is stored in the room.
C15_Witness ==
    /\ Stored("r1", "A") = JOIN /\ Stored("r1", "B") = INVITE
    /\ \E m \in messages :
          /\ m.user_id = "_hs_" /\ m.room_id = "r1"
          /\ m.content =
                 json_dumps("sy.text:" \o membership_msg_body("A", "B", INVITE))

\* C16: in change_membership a caller or target lookup that finds no row
\* counts as the state none (not JOIN) and the transition table decides;
\* a lookup that ends with a fault of the Store makes the call end with
\* that fault, with no store_room_member call and the rows as before.
C16_LookupFaultPropagates ==
    \A c \in AuthIds, t \in UserIds, r \in RoomIds, s \in RequestedStates,
       k \in Contents, b \in BOOLEAN, now \in Times :
        /\ LET out == change_membership_outcome(c, t, r, s, k, b, now, NoFault)
           IN  (Stored(r, c) = None \/ Stored(r, t) = None) =>
                   /\ (out.result = Ok) <=> Allowed(c, t, r, s)
                   /\ out.result \notin {StoreFault, UnboundLocalError}
        /\ \A f \in {"get_room_member_caller", "get_room_member_target"} :
            LET out == change_membership_outcome(c, t, r, s, k, b, now, f)
            IN  /\ out.result = StoreFault
                /\ ~Called(out.store_calls, "store_room_member")
                /\ out.members = members

\* C17: after any sequence of get_room_path_data calls (and of the other
\* handlers' calls) the default rule lists are as defined, public [] and
\* private ["join"]: a call that passes no rules lets any requester read in
\* a public room, and in a private room lets a user whose state is INVITE
\* read under a topic event and refuses the same user under another event.
C17_TopicOverrideLeavesDefaults ==
    /\ rule_defaults = [public_room_rules |-> {},
                        private_room_rules |-> {JOIN}]
    /\ \A r \in rooms, a \in AuthIds, p \in Paths :
        LET topic == get_room_path_data_outcome(r.room_id, a,
                         RoomTopicEventTYPE, p, Omitted, Omitted, NoFault)
            other == get_room_path_data_outcome(r.room_id, a,
                         MessageEventTYPE, p, Omitted, Omitted, NoFault)
        IN  IF r.is_public
            THEN topic.result = Ok /\ other.result = Ok
            ELSE /\ (other.result = Ok) <=> Stored(r.room_id, a) = JOIN
                 /\ Stored(r.room_id, a) = INVITE =>
                        /\ topic.result = Ok
                        /\ other.result = RoomError(403,
                               "Member does not meet private room rules.")

\* C17 witness: in the private room r1 B is invited and path data is
\* stored; B's topic read without rule arguments is allowed and returns
\* the data, and B's read of the same path under a message event, again
\* without rule arguments, is refused.
C17_Witness ==
    /\ \E r \in rooms : r.room_id = "r1" /\ ~r.is_public
    /\ Stored("r1", "B") = INVITE
    /\ path_written["p1"] # None
    /\ get_room_path_data_outcome("r1", "B", RoomTopicEventTYPE, "p1",
           Omitted, Omitted, NoFault).returns # {}
    /\ get_room_path_data_outcome("r1", "B", MessageEventTYPE, "p1",
           Omitted, Omitted, NoFault).result.code = 403

\* No user's stored state in the room is INVITE or JOIN.
DeadRoom(r) == \A u \in UserIds : Stored(r, u) \notin {INVITE, JOIN}

\* What C19 asks of every state with no request in flight: in a room where
\* no user's state is INVITE or JOIN every change_membership call, whatever
\* its caller, target, requested state and flag, ends with an error, makes
\* no store_room_member call and leaves every member row.
C19_DeadRoomRefuses ==
    \A r \in RoomIds :
        DeadRoom(r) =>
            \A c \in AuthIds, t \in UserIds, s \in RequestedStates,
               k \in Contents, b \in BOOLEAN, now \in Times,
               f \in ChangeMembershipFaults :
                LET out == change_membership_outcome(c, t, r, s, k, b, now, f)
                IN  /\ out.result # Ok
                    /\ ~Called(out.store_calls, "store_room_member")
                    /\ out.members = members

\* What C19 asks of every step of any handler: such a room stays such a
\* room, and its member rows stay as they are.
C19_StaysDead ==
    \A r \in RoomIds :
        DeadRoom(r) => DeadRoom(r)' /\ members'[r] = members[r]

\* C19: a room in which no user is invited or joined is dead: every
\* change_membership call on it is refused and changes no row, so nobody
\* ever gets to JOIN in it; a room that create_room has just stored has no
\* member row and is such a room.
C19_DeadRoomStaysDead == []C19_DeadRoomRefuses /\ [][C19_StaysDead]_vars

\* C19 witness: r2 was created by B and has no member row; in r1 both users
\* have left; in both rooms the creator's JOIN is refused.
C19_Witness ==
    /\ \E x \in rooms : x.room_id = "r2" /\ x.creator = "B"
    /\ \A u \in UserIds : Stored("r2", u) = None
    /\ Stored("r1", "A") = LEAVE /\ Stored("r1", "B") = LEAVE
    /\ change_membership_outcome("B", "B", "r2", JOIN, "c1", FALSE, 1,
           NoFault).result = RoomError(403, "Cannot join.")
    /\ change_membership_outcome("A", "A", "r1", JOIN, "c1", FALSE, 1,
           NoFault).result = RoomError(403, "Cannot join.")

\* What C20 asks of every change_membership call (no Store fault): one that
\* returns ok leaves the member table with the row of (room, target) the
\* requested state and content and every other row, the caller's included,
\* as before, after one store_room_member call; one refused by the
\* transition table calls no writing Store operation and leaves the member
\* and message tables; no call uses a Store operation on rooms or path
\* data.
C20_OneRowWritten ==
    \A c \in AuthIds, t \in UserIds, r \in RoomIds, s \in RequestedStates,
       k \in Contents, b \in BOOLEAN, now \in Times :
        LET out == change_membership_outcome(c, t, r, s, k, b, now, NoFault)
        IN  /\ (out.result = Ok) <=> Allowed(c, t, r, s)
            /\ out.result = Ok =>
                /\ TimesCalled(out.store_calls, "store_room_member") = 1
                /\ out.members[r][t] = [membership |-> s, content |-> k]
                /\ \A r2 \in RoomIds, u \in UserIds :
                      (r2 # r \/ u # t) =>
                          out.members[r2][u] = members[r2][u]
            /\ out.result # Ok =>
                /\ ~Called(out.store_calls, "store_room_member")
                /\ ~Called(out.store_calls, "store_message")
                /\ out.members = members /\ out.messages = messages
            /\ \A i \in DOMAIN out.store_calls :
                  out.store_calls[i] \in {"get_room", "get_room_member",
                                          "store_room_member", "store_message"}

\* What C20 asks of every step that changes the member table: exactly one
\* row differs, and rooms and path data are as before.
C20_Frame ==
    members' # members =>
        /\ Cardinality({rt \in RoomIds \X UserIds :
               members'[rt[1]][rt[2]] # members[rt[1]][rt[2]]}) = 1
        /\ rooms' = rooms
        /\ path_data' = path_data

\* C20: a successful change_membership changes the one member row of
\* (room, target) and nothing else of the member table, rooms or path data;
\* one refused by the transition table changes nothing in the Store.
C20_OnlyTargetRowChanges == []C20_OneRowWritten /\ [][C20_Frame]_vars

\* C20 witness: path data is stored, r2 exists, A is joined and B invited
\* with A's invite; B's JOIN would change B's row and leave A's, and B's
\* LEAVE of A is refused and would leave every row.
C20_Witness ==
    /\ RoomExists("r2") /\ path_written["p1"] # None
    /\ Stored("r1", "A") = JOIN /\ Stored("r1", "B") = INVITE
    /\ LET join == change_membership_outcome("B", "B", "r1", JOIN, "c1",
                                             FALSE, 1, NoFault)
           leave == change_membership_outcome("B", "A", "r1", LEAVE, "c1",
                                              FALSE, 1, NoFault)
       IN  /\ join.result = Ok
           /\ join.members["r1"]["B"].membership = JOIN
           /\ join.members["r1"]["A"] = members["r1"]["A"]
           /\ leave.result = RoomError(403, "Cannot leave.")
           /\ leave.members = members

====
